---- MODULE Spec2Model ----
(***************************************************************************)
(* U.S. Labor Market Dashboard (src/app.py): the data path of the script,  *)
(* from the single request to the BLS API to the derived columns that are  *)
(* handed to the Dash layout.                                              *)
(*                                                                         *)
(* Python strings are sequences of one-character strings, so that          *)
(* str.replace, pd.to_datetime and pd.to_numeric are computed on the text. *)
(* A cell of a DataFrame is <<>> (NaN) or <<v>> (the number v).            *)
(* A Timestamp is <<year, month, day>>.                                    *)
(***************************************************************************)
EXTENDS Integers, Sequences, FiniteSets, TLC

VARIABLES
    response,               \* what requests.post(...) will yield (line 71)
    pc,                     \* position in the script
    requests,               \* number of requests sent to the API
    out,                    \* lines printed to stdout
    error,                  \* the uncaught exception that ended the script, or "none"
    df,                     \* fetch_bls_data's local df (line 82)
    i,                      \* index of the next series in the loop (line 83)
    series_name,            \* fetch_bls_data's local series_name (line 85)
    bls_df,                 \* module-level bls_df (lines 101, 112, 123, 126)
    yearly_change_nonfarm   \* module-level yearly_change_nonfarm (lines 132, 133)

vars == <<response, pc, requests, out, error, df, i, series_name, bls_df,
          yearly_change_nonfarm>>

(***************************************************************************)
(* Bounds of the model.                                                    *)
(***************************************************************************)
MaxPoints == 4      \* observations in a response

(***************************************************************************)
(* Text.                                                                   *)
(***************************************************************************)
DigitChars == <<"0", "1", "2", "3", "4", "5", "6", "7", "8", "9">>

IsDigit(c) == \E k \in 1..Len(DigitChars) : DigitChars[k] = c

DigitVal(c) == (CHOOSE k \in 1..Len(DigitChars) : DigitChars[k] = c) - 1

AllDigits(s) == \A k \in 1..Len(s) : IsDigit(s[k])

RECURSIVE DecVal(_)
DecVal(s) ==
    IF Len(s) = 0 THEN 0
    ELSE 10 * DecVal(SubSeq(s, 1, Len(s) - 1)) + DigitVal(s[Len(s)])

\* str.replace(old, new) for a one-character old and new (line 88)
StrReplace(s, old, new) == [k \in 1..Len(s) |-> IF s[k] = old THEN new ELSE s[k]]

(***************************************************************************)
(* pandas conversions, with their default errors='raise'.                  *)
(***************************************************************************)
\* pd.to_datetime of one string: "YYYY-MM" is the first day of that month;
\* any other text of the model's inputs is not a date and raises.
DatetimeParses(s) ==
    /\ Len(s) = 7
    /\ AllDigits(SubSeq(s, 1, 4))
    /\ s[5] = "-"
    /\ AllDigits(SubSeq(s, 6, 7))
    /\ DecVal(SubSeq(s, 6, 7)) \in 1..12

ToDatetime(s) == <<DecVal(SubSeq(s, 1, 4)), DecVal(SubSeq(s, 6, 7)), 1>>

\* pd.to_numeric of one string: a decimal integer text is its number; the
\* other texts of the model's inputs are no number and raise.
NumericParses(s) == Len(s) > 0 /\ AllDigits(s)

ToNumeric(s) == DecVal(s)

(***************************************************************************)
(* Timestamps.                                                             *)
(***************************************************************************)
DateLess(a, b) ==
    \/ a[1] < b[1]
    \/ a[1] = b[1] /\ a[2] < b[2]
    \/ a[1] = b[1] /\ a[2] = b[2] /\ a[3] < b[3]

(***************************************************************************)
(* DataFrames: an index of Timestamps and an ordered list of named columns *)
(* whose values are aligned with the index.                                *)
(***************************************************************************)
None == [type |-> "NoneType"]

NaN == <<>>

\* pd.DataFrame() (line 82)
EmptyFrame == [type |-> "DataFrame", index |-> <<>>, columns |-> <<>>]

ColumnNames(t) == {t.columns[k].name : k \in 1..Len(t.columns)}

Column(t, name) ==
    t.columns[CHOOSE k \in 1..Len(t.columns) : t.columns[k].name = name].values

\* lines 87-90 for one series whose texts all parse: the rows (date, value)
\* of series_data in the order of series['data']
SeriesFrame(data) ==
    [k \in 1..Len(data) |->
        [date |-> ToDatetime(data[k].year \o StrReplace(data[k].period, "M", "-")),
         value |-> <<ToNumeric(data[k].value)>>]]

\* Series.reindex(index): the value at each label of index, NaN where the
\* series has no such label
Reindex(rows, index) ==
    [k \in 1..Len(index) |->
        IF \E r \in 1..Len(rows) : rows[r].date = index[k]
        THEN rows[CHOOSE r \in 1..Len(rows) : rows[r].date = index[k]].value
        ELSE NaN]

\* df[name] = series (line 92): a frame whose index is still empty takes the
\* series' index; otherwise the series is aligned to the frame's index
SetColumn(t, name, rows) ==
    LET index == IF Len(t.index) = 0
                 THEN [k \in 1..Len(rows) |-> rows[k].date]
                 ELSE t.index
        col == [name |-> name, values |-> Reindex(rows, index)]
    IN  [type |-> "DataFrame",
         index |-> index,
         columns |-> IF name \in ColumnNames(t)
                     THEN [k \in 1..Len(t.columns) |->
                              IF t.columns[k].name = name THEN col ELSE t.columns[k]]
                     ELSE Append(t.columns, col)]

\* the positions 1..n of index in ascending order of their Timestamps (stable)
RECURSIVE SortedPositions(_, _)
SortedPositions(index, n) ==
    IF n = 0 THEN <<>>
    ELSE LET s == SortedPositions(index, n - 1)
             k == Cardinality({j \in 1..Len(s) : ~DateLess(index[n], index[s[j]])})
         IN  SubSeq(s, 1, k) \o <<n>> \o SubSeq(s, k + 1, Len(s))

\* a variant of SortIndex that leaves the rows in insertion order
SortIndexOmitted(t) == t

\* df.sort_index(inplace=True) (line 95)
SortIndex(t) ==
    LET p == SortedPositions(t.index, Len(t.index))
    IN  [type |-> "DataFrame",
         index |-> [k \in 1..Len(p) |-> t.index[p[k]]],
         columns |-> [c \in 1..Len(t.columns) |->
                        [name |-> t.columns[c].name,
                         values |-> [k \in 1..Len(p) |-> t.columns[c].values[p[k]]]]]]

(***************************************************************************)
(* The responses the API may give.                                         *)
(***************************************************************************)
Y2020 == <<"2", "0", "2", "0">>
Y2021 == <<"2", "0", "2", "1">>
Y2022 == <<"2", "0", "2", "2">>
M01 == <<"M", "0", "1">>
M02 == <<"M", "0", "2">>
M12 == <<"M", "1", "2">>
M13 == <<"M", "1", "3">>
V100 == <<"1", "0", "0">>
V103 == <<"1", "0", "3">>
VNA == <<"N", "/", "A">>

LevelID == "CES0000000001"
OtherID == "X"
SeriesIDs == {LevelID, OtherID}

\* the catalog of an entry in the response: with a title, without one, or
\* <<>> for an entry that has no 'catalog' key
Titled == <<[series_title |-> "title", survey_name |-> "survey"]>>
Untitled == <<[survey_name |-> "survey"]>>
NoCatalog == <<>>

\* the texts of a response's observations: monthly observations over three
\* years with numeric values; observations with an unparsable value or a
\* non-monthly period code; observations under each kind of catalog
Monthly == [keys |-> {<<Y2020, M01>>, <<Y2020, M12>>, <<Y2021, M01>>, <<Y2022, M01>>},
            values |-> {V100, V103},
            catalogs |-> {Titled}]
Faulty == [keys |-> {<<Y2020, M01>>, <<Y2020, M02>>, <<Y2020, M13>>},
           values |-> {V100, VNA},
           catalogs |-> {Titled}]
Plain == [keys |-> {<<Y2020, M01>>, <<Y2020, M02>>},
          values |-> {V103},
          catalogs |-> {Titled, Untitled, NoCatalog}]
Families == {Monthly, Faulty, Plain}

Injective(s) == \A a, b \in 1..Len(s) : s[a] = s[b] => a = b

\* the data lists of n observations of a family, no (year, period) twice
DataLists(fam, n) ==
    UNION {
        {[k \in 1..n |-> [year |-> ks[k][1], period |-> ks[k][2], value |-> vs[k]]] :
            vs \in [1..n -> fam.values]}
        : ks \in {s \in [1..n -> fam.keys] : Injective(s)}}

\* one entry of Results.series
Entry(id, catalog, data) ==
    IF catalog = NoCatalog
    THEN [seriesID |-> id, data |-> data]
    ELSE [seriesID |-> id, catalog |-> catalog[1], data |-> data]

WellFormed(series) ==
    [connected |-> TRUE, status |-> 200, data |-> [Results |-> [series |-> series]]]

FailedResponses ==
    {[connected |-> FALSE, status |-> 0, data |-> <<>>],
     [connected |-> TRUE, status |-> 500, data |-> <<>>],
     [connected |-> TRUE, status |-> 200, data |-> [message |-> "REQUEST_NOT_PROCESSED"]],
     [connected |-> TRUE, status |-> 200, data |-> [Results |-> <<>>]]}

\* the response: a failure, or a list of at most one entry per identifier,
\* in any order, with at most MaxPoints observations in all
InitResponse ==
    \/ response \in FailedResponses
    \/ response = WellFormed(<<>>)
    \/ \E fam \in Families, id \in SeriesIDs, n \in 0..MaxPoints :
       \E c \in fam.catalogs, d \in DataLists(fam, n) :
          response = WellFormed(<<Entry(id, c, d)>>)
    \/ \E fam \in Families, id1 \in SeriesIDs, n1 \in 0..MaxPoints :
       \E id2 \in SeriesIDs \ {id1}, n2 \in 0..(MaxPoints - n1) :
       \E c1 \in fam.catalogs, d1 \in DataLists(fam, n1) :
       \E c2 \in fam.catalogs, d2 \in DataLists(fam, n2) :
          response = WellFormed(<<Entry(id1, c1, d1), Entry(id2, c2, d2)>>)

(***************************************************************************)
(* The script.                                                             *)
(***************************************************************************)
Init ==
    /\ InitResponse
    /\ pc = "fetch"
    /\ requests = 0
    /\ out = <<>>
    /\ error = "none"
    /\ df = None
    /\ i = 0
    /\ series_name = ""
    /\ bls_df = None
    /\ yearly_change_nonfarm = <<>>

\* response.raise_for_status() (line 72)
RaisesForStatus(status) == status >= 400

\* a variant of ShapeOK that tests for the top-level field only
ShapeOKResultsOnly(data) == "Results" \in DOMAIN data

\* the negation of line 78's test
ShapeOK(data) == "Results" \in DOMAIN data /\ "series" \in DOMAIN data.Results

\* fetch_bls_data up to the loop (lines 70-82); a None return is assigned
\* to bls_df by line 101
Fetch ==
    /\ pc = "fetch"
    /\ requests' = requests + 1
    /\ IF ~response.connected \/ RaisesForStatus(response.status)
       THEN /\ out' = Append(out, "Error fetching data from BLS API")
            /\ bls_df' = None
            /\ pc' = "check"
            /\ UNCHANGED <<df, i>>
       ELSE IF ~ShapeOK(response.data)
       THEN /\ out' = Append(out, "API response does not contain the expected data structure.")
            /\ bls_df' = None
            /\ pc' = "check"
            /\ UNCHANGED <<df, i>>
       ELSE /\ df' = EmptyFrame
            /\ i' = 1
            /\ pc' = "loop"
            /\ UNCHANGED <<out, bls_df>>
    /\ UNCHANGED <<response, error, series_name, yearly_change_nonfarm>>

Raise(e) ==
    /\ pc' = "crashed"
    /\ error' = e

\* one pass of the loop body (lines 84-92)
LoopBody ==
    /\ pc = "loop"
    /\ i <= Len(response.data.Results.series)
    /\ LET series == response.data.Results.series[i]
           data == series.data
       IN  IF "catalog" \notin DOMAIN series
           THEN Raise("KeyError") /\ UNCHANGED <<df, i, series_name>>
           ELSE /\ series_name' = IF "series_title" \in DOMAIN series.catalog
                                  THEN series.catalog.series_title
                                  ELSE series.seriesID
                /\ IF Len(data) = 0
                   THEN Raise("KeyError") /\ UNCHANGED <<df, i>>
                   ELSE IF \E k \in 1..Len(data) :
                             ~DatetimeParses(data[k].year \o StrReplace(data[k].period, "M", "-"))
                   THEN Raise("ValueError") /\ UNCHANGED <<df, i>>
                   ELSE IF \E k \in 1..Len(data) : ~NumericParses(data[k].value)
                   THEN Raise("ValueError") /\ UNCHANGED <<df, i>>
                   ELSE /\ df' = SetColumn(df, series.seriesID, SeriesFrame(data))
                        /\ i' = i + 1
                        /\ UNCHANGED <<pc, error>>
    /\ UNCHANGED <<response, requests, out, bls_df, yearly_change_nonfarm>>

\* after the loop (lines 95-97), and the assignment of line 101
SortAndReturn ==
    /\ pc = "loop"
    /\ i > Len(response.data.Results.series)
    /\ df' = SortIndex(df)
    /\ bls_df' = df'
    /\ pc' = "check"
    /\ UNCHANGED <<response, requests, out, error, i, series_name, yearly_change_nonfarm>>

\* lines 104-106
CheckNone ==
    /\ pc = "check"
    /\ IF bls_df = None
       THEN /\ out' = Append(out, "Could not retrieve data. Please check your API key and network connection.")
            /\ pc' = "halted"
       ELSE /\ pc' = "rename"
            /\ UNCHANGED out
    /\ UNCHANGED <<response, requests, error, df, i, series_name, bls_df, yearly_change_nonfarm>>

\* the dict given to rename (lines 112-120)
RenameMap ==
    [k \in {"LNS11000000", "LNS12000000", "LNS13000000", "LNS14000000",
            "CES0000000001", "LNS11300000", "LNS12300000"} |->
        CASE k = "LNS11000000" -> "Civilian Labor Force"
          [] k = "LNS12000000" -> "Civilian Employment"
          [] k = "LNS13000000" -> "Civilian Unemployment"
          [] k = "LNS14000000" -> "Unemployment Rate"
          [] k = "CES0000000001" -> "Total Nonfarm Employment"
          [] k = "LNS11300000" -> "Labor Force Participation Rate"
          [] k = "LNS12300000" -> "Employment-Population Ratio"]

\* a variant of RenameColumns that keeps only the columns the mapping names
RenameColumnsMappedOnly(t, mapping) ==
    LET kept == SelectSeq(t.columns, LAMBDA col : col.name \in DOMAIN mapping)
    IN  [type |-> "DataFrame",
         index |-> t.index,
         columns |-> [c \in 1..Len(kept) |->
                        [name |-> mapping[kept[c].name], values |-> kept[c].values]]]

\* DataFrame.rename(columns=mapping)
RenameColumns(t, mapping) ==
    [type |-> "DataFrame",
     index |-> t.index,
     columns |-> [c \in 1..Len(t.columns) |->
                    [name |-> IF t.columns[c].name \in DOMAIN mapping
                              THEN mapping[t.columns[c].name]
                              ELSE t.columns[c].name,
                     values |-> t.columns[c].values]]]

\* line 112
Rename ==
    /\ pc = "rename"
    /\ bls_df' = RenameColumns(bls_df, RenameMap)
    /\ pc' = "monthly"
    /\ UNCHANGED <<response, requests, out, error, df, i, series_name, yearly_change_nonfarm>>

\* a variant of Diff that subtracts in the other direction
DiffReversed(values) ==
    [k \in 1..Len(values) |->
        IF k > 1 /\ values[k] # NaN /\ values[k - 1] # NaN
        THEN <<values[k - 1][1] - values[k][1]>>
        ELSE NaN]

\* Series.diff(): each value minus the one of the row before; NaN in the
\* first row and wherever one of the two is NaN
Diff(values) ==
    [k \in 1..Len(values) |->
        IF k > 1 /\ values[k] # NaN /\ values[k - 1] # NaN
        THEN <<values[k][1] - values[k - 1][1]>>
        ELSE NaN]

\* series * factor
Times(values, factor) ==
    [k \in 1..Len(values) |->
        IF values[k] # NaN THEN <<values[k][1] * factor>> ELSE NaN]

\* df[name] = a series that has the frame's own index
SetAligned(t, name, values) ==
    SetColumn(t, name, [k \in 1..Len(t.index) |-> [date |-> t.index[k], value |-> values[k]]])

\* lines 123 and 126
MonthlyChange ==
    /\ pc = "monthly"
    /\ IF "Total Nonfarm Employment" \notin ColumnNames(bls_df)
       THEN Raise("KeyError") /\ UNCHANGED bls_df
       ELSE LET change == Diff(Column(bls_df, "Total Nonfarm Employment"))
                t == SetAligned(bls_df, "Monthly Change in Nonfarm Employment", change)
            IN  /\ bls_df' = SetAligned(t, "Monthly Change in Nonfarm Employment Display",
                                        Times(change, 1000))
                /\ pc' = "yearly"
                /\ UNCHANGED error
    /\ UNCHANGED <<response, requests, out, df, i, series_name, yearly_change_nonfarm>>

MinYear(index) == CHOOSE y \in {index[k][1] : k \in 1..Len(index)} :
                      \A k \in 1..Len(index) : y <= index[k][1]

MaxYear(index) == CHOOSE y \in {index[k][1] : k \in 1..Len(index)} :
                      \A k \in 1..Len(index) : y >= index[k][1]

\* the last value that is not NaN among the rows of year y, NaN if none
LastInYear(index, values, y) ==
    LET S == {k \in 1..Len(index) : index[k][1] = y /\ values[k] # NaN}
    IN  IF S = {} THEN NaN ELSE values[CHOOSE k \in S : \A j \in S : j <= k]

\* Series.resample('YE').last(): one bin per calendar year from the first
\* row's year to the last row's year
ResampleYearLast(index, values) ==
    IF Len(index) = 0 THEN <<>>
    ELSE [n \in 1..(MaxYear(index) - MinYear(index) + 1) |->
            [year |-> MinYear(index) + n - 1,
             value |-> LastInYear(index, values, MinYear(index) + n - 1)]]

\* a variant of YearlyDiffDropna that drops the empty years before it takes
\* the differences
YearlyDropnaDiff(yearly) ==
    LET seen == SelectSeq(yearly, LAMBDA r : r.value # NaN)
        d == Diff([n \in 1..Len(seen) |-> seen[n].value])
    IN  SelectSeq([n \in 1..Len(seen) |-> [year |-> seen[n].year, value |-> d[n]]],
                  LAMBDA r : r.value # NaN)

\* .diff() then .dropna() on the yearly series (lines 132-133)
YearlyDiffDropna(yearly) ==
    LET d == Diff([n \in 1..Len(yearly) |-> yearly[n].value])
    IN  SelectSeq([n \in 1..Len(yearly) |-> [year |-> yearly[n].year, value |-> d[n]]],
                  LAMBDA r : r.value # NaN)

\* lines 132-133
YearlyChange ==
    /\ pc = "yearly"
    /\ yearly_change_nonfarm' =
          YearlyDiffDropna(ResampleYearLast(bls_df.index,
                                            Column(bls_df, "Total Nonfarm Employment")))
    /\ pc' = "dashboard"
    /\ UNCHANGED <<response, requests, out, error, df, i, series_name, bls_df>>

\* sections 4 and 5: the layout is built from bls_df and the derived values
Dashboard ==
    /\ pc = "dashboard"
    /\ pc' = "serving"
    /\ UNCHANGED <<response, requests, out, error, df, i, series_name, bls_df,
                   yearly_change_nonfarm>>

Next ==
    \/ Fetch
    \/ LoopBody
    \/ SortAndReturn
    \/ CheckNone
    \/ Rename
    \/ MonthlyChange
    \/ YearlyChange
    \/ Dashboard

Spec == Init /\ [][Next]_vars

(***************************************************************************)
(* Vocabulary of the properties.                                           *)
(***************************************************************************)
\* the request failed in transport, or the response lacks Results or the
\* series list under it
TransportFailed == ~response.connected \/ response.status >= 400

SeriesListMissing ==
    \/ "Results" \notin DOMAIN response.data
    \/ "series" \notin DOMAIN response.data.Results

FetchFailed == TransportFailed \/ SeriesListMissing

\* the series of a well-formed response
Batch == IF FetchFailed THEN <<>> ELSE response.data.Results.series

\* its observations, as (position of the series, position in its data)
Observations == UNION {{<<s, k>> : k \in 1..Len(Batch[s].data)} : s \in 1..Len(Batch)}

Obs(o) == Batch[o[1]].data[o[2]]

IsMonthlyCode(p) ==
    /\ Len(p) = 3
    /\ p[1] = "M"
    /\ IsDigit(p[2]) /\ IsDigit(p[3])
    /\ 10 * DigitVal(p[2]) + DigitVal(p[3]) \in 1..12

IsNumericText(v) == Len(v) > 0 /\ \A k \in 1..Len(v) : IsDigit(v[k])

\* the first day of the month a monthly observation names
FirstOfMonth(ob) == <<DecVal(ob.year), 10 * DigitVal(ob.period[2]) + DigitVal(ob.period[3]), 1>>

\* fetch_bls_data has ended: it returned, or an exception left it
BuildEnded == pc # "fetch" /\ pc # "loop"

\* column name of table t holds the number v at date d
Holds(t, name, d, v) ==
    /\ name \in ColumnNames(t)
    /\ \E k \in 1..Len(t.index) : t.index[k] = d /\ Column(t, name)[k] = <<v>>

\* column name of table t has no number at date d
Unset(t, name, d) ==
    /\ name \in ColumnNames(t)
    /\ \A k \in 1..Len(t.index) : t.index[k] = d => Column(t, name)[k] = NaN

AllCataloged == \A s \in 1..Len(Batch) : "catalog" \in DOMAIN Batch[s]
AllMonthly == \A o \in Observations : IsMonthlyCode(Obs(o).period)
AllNumeric == \A o \in Observations : IsNumericText(Obs(o).value)
NoEmptySeries == \A s \in 1..Len(Batch) : Len(Batch[s].data) > 0

LevelName == "Total Nonfarm Employment"
ChangeName == "Monthly Change in Nonfarm Employment"

(***************************************************************************)
(* C1.  The table fetch_bls_data returns has its dates in strictly         *)
(* ascending order: each row's date is strictly less than the next row's,  *)
(* so no date appears twice.                                               *)
(***************************************************************************)
C1_DatesStrictlyAscending ==
    bls_df # None =>
        \A k \in 1..Len(bls_df.index) - 1 : DateLess(bls_df.index[k], bls_df.index[k + 1])

\* a table of several rows was returned for a first series given newest-first
C1_Witness ==
    /\ pc = "check" /\ bls_df # None
    /\ Len(bls_df.index) >= 2
    /\ Len(Batch[1].data) >= 2
    /\ DateLess(FirstOfMonth(Batch[1].data[2]), FirstOfMonth(Batch[1].data[1]))

(***************************************************************************)
(* C2.  The returned table has one row for every date in the union of the  *)
(* dates of all series; each series' column holds the series' value at     *)
(* every date the series has a point for and is unset at every other date. *)
(***************************************************************************)
C2_RowsAreUnionOfDates ==
    (pc = "check" /\ bls_df # None) =>
        /\ {bls_df.index[k] : k \in 1..Len(bls_df.index)}
              = {FirstOfMonth(Obs(o)) : o \in Observations}
        /\ \A o \in Observations :
              Holds(bls_df, Batch[o[1]].seriesID, FirstOfMonth(Obs(o)), DecVal(Obs(o).value))
        /\ \A s \in 1..Len(Batch) : \A k \in 1..Len(bls_df.index) :
              (\A j \in 1..Len(Batch[s].data) : FirstOfMonth(Batch[s].data[j]) # bls_df.index[k])
                  => Unset(bls_df, Batch[s].seriesID, bls_df.index[k])

(***************************************************************************)
(* C3.  If exactly one observation of a well-formed response has a         *)
(* non-numeric value, a table is still returned: that observation's cell   *)
(* is unset and every other observation of every series is in the table    *)
(* with its value.                                                         *)
(***************************************************************************)
C3_OneBadValueIsDropped ==
    (/\ BuildEnded /\ ~FetchFailed
     /\ AllCataloged /\ AllMonthly /\ NoEmptySeries
     /\ Cardinality({o \in Observations : ~IsNumericText(Obs(o).value)}) = 1)
    => /\ bls_df # None
       /\ \A o \in Observations :
             IF IsNumericText(Obs(o).value)
             THEN Holds(bls_df, Batch[o[1]].seriesID, FirstOfMonth(Obs(o)), DecVal(Obs(o).value))
             ELSE Unset(bls_df, Batch[o[1]].seriesID, FirstOfMonth(Obs(o)))

(***************************************************************************)
(* C4.  When the fetch fails in transport, or the response lacks Results   *)
(* or the series list, the run is terminal: no table is produced           *)
(* (fetch_bls_data returns None), one request was sent and none after it,  *)
(* a message is printed, and the script halts before the rename, the       *)
(* derived columns and the dashboard.                                      *)
(***************************************************************************)
C4_FetchFailureIsTerminal ==
    FetchFailed =>
        /\ pc \in {"fetch", "check", "halted"}
        /\ bls_df = None /\ df = None
        /\ yearly_change_nonfarm = <<>>
        /\ error = "none"
        /\ pc = "fetch" => requests = 0 /\ out = <<>>
        /\ pc = "check" => requests = 1 /\ Len(out) = 1
        /\ pc = "halted" => requests = 1 /\ Len(out) = 2

\* the script halted on a response that has Results but no series list
C4_Witness ==
    /\ pc = "halted"
    /\ response.connected /\ response.status = 200
    /\ "Results" \in DOMAIN response.data
    /\ "series" \notin DOMAIN response.data.Results

(***************************************************************************)
(* C5.  The month-over-month column equals L[d] - L[prev(d)] at every date *)
(* d after the first, prev(d) being the date of the row before, and is     *)
(* absent at the first date (L is the Total Nonfarm Employment column; a   *)
(* difference with an unset operand is unset).                             *)
(***************************************************************************)
C5_MonthOverMonth ==
    pc \in {"yearly", "dashboard", "serving"} =>
        LET L == Column(bls_df, LevelName)
            M == Column(bls_df, ChangeName)
        IN  /\ Len(M) = Len(bls_df.index)
            /\ Len(M) > 0 => M[1] = NaN
            /\ \A k \in 2..Len(M) :
                  IF L[k] # NaN /\ L[k - 1] # NaN
                  THEN M[k] = <<L[k][1] - L[k - 1][1]>>
                  ELSE M[k] = NaN

\* the level rose from 100 to 103 between the first two rows
C5_Witness ==
    /\ pc = "yearly"
    /\ Len(bls_df.index) >= 2
    /\ Column(bls_df, LevelName)[1] = <<100>>
    /\ Column(bls_df, LevelName)[2] = <<103>>
    /\ Column(bls_df, ChangeName)[1] = NaN
    /\ Column(bls_df, ChangeName)[2] = <<3>>

(***************************************************************************)
(* C6.  The year-over-year change.                                         *)
(***************************************************************************)
\* the calendar years in which the level column has an observation
ObservedYears ==
    {bls_df.index[k][1] : k \in {j \in 1..Len(bls_df.index) : Column(bls_df, LevelName)[j] # NaN}}

\* the level observed at the latest date of year y
LastObserved(y) ==
    LET S == {k \in 1..Len(bls_df.index) :
                 bls_df.index[k][1] = y /\ Column(bls_df, LevelName)[k] # NaN}
        k == CHOOSE j \in S : \A m \in S : ~DateLess(bls_df.index[j], bls_df.index[m])
    IN  Column(bls_df, LevelName)[k][1]

YearlyEntries == {<<yearly_change_nonfarm[n].year, yearly_change_nonfarm[n].value>> :
                     n \in 1..Len(yearly_change_nonfarm)}

YearlyInOrder ==
    \A n \in 1..Len(yearly_change_nonfarm) - 1 :
        yearly_change_nonfarm[n].year < yearly_change_nonfarm[n + 1].year

\* C6 as stated: the result is the difference between each observed year's
\* last value and the last value of the observed year before it, and no
\* year without observations has an entry
C6_ConsecutiveObservedYears ==
    pc \in {"dashboard", "serving"} =>
        /\ YearlyInOrder
        /\ YearlyEntries =
              {<<y, <<LastObserved(y)
                      - LastObserved(CHOOSE p \in ObservedYears :
                                        p < y /\ \A q \in ObservedYears : q < y => q <= p)>>>> :
                  y \in {z \in ObservedYears : \E p \in ObservedYears : p < z}}

\* C6 amended: the result has an entry exactly for each calendar year y such
\* that y and y - 1 both have an observation, which is the last observed
\* value of y minus the last observed value of y - 1; a year without
\* observations has no entry, and no entry is made up for it
C6_ConsecutiveCalendarYears ==
    pc \in {"dashboard", "serving"} =>
        /\ YearlyInOrder
        /\ YearlyEntries =
              {<<y, <<LastObserved(y) - LastObserved(y - 1)>>>> :
                  y \in {z \in ObservedYears : z - 1 \in ObservedYears}}
        /\ \A n \in 1..Len(yearly_change_nonfarm) :
              yearly_change_nonfarm[n].year \in ObservedYears

\* an entry whose earlier year has two observations of different value, the
\* later of which enters the difference
C6_Witness ==
    /\ pc = "dashboard"
    /\ \E n \in 1..Len(yearly_change_nonfarm) :
          LET y == yearly_change_nonfarm[n].year
          IN  /\ \E a, b \in 1..Len(bls_df.index) :
                    /\ a < b
                    /\ bls_df.index[a][1] = y - 1 /\ bls_df.index[b][1] = y - 1
                    /\ Column(bls_df, LevelName)[a] # NaN
                    /\ Column(bls_df, LevelName)[b] # NaN
                    /\ Column(bls_df, LevelName)[a] # Column(bls_df, LevelName)[b]
              /\ yearly_change_nonfarm[n].value # <<0>>

(***************************************************************************)
(* C7.  The rename leaves the row count, the row order, the date index and *)
(* every cell unchanged; a column whose identifier is in the mapping takes *)
(* its label, and any other column keeps its identifier.                   *)
(***************************************************************************)
C7_RenameOnlyRelabels ==
    [][pc = "rename" =>
          /\ bls_df'.index = bls_df.index
          /\ Len(bls_df'.columns) = Len(bls_df.columns)
          /\ \A c \in 1..Len(bls_df.columns) :
                /\ bls_df'.columns[c].values = bls_df.columns[c].values
                /\ bls_df'.columns[c].name =
                      IF bls_df.columns[c].name \in DOMAIN RenameMap
                      THEN RenameMap[bls_df.columns[c].name]
                      ELSE bls_df.columns[c].name]_vars

\* a table of several rows was renamed that has a mapped and an unmapped column
C7_Witness ==
    /\ pc = "monthly"
    /\ Len(bls_df.index) >= 2
    /\ ColumnNames(bls_df) = {LevelName, OtherID}

(***************************************************************************)
(* C9.  The date of a point comes from (year, period code): a code         *)
(* "M01".."M12" places the value at the first day of that month; a point   *)
(* with any other code is rejected or skipped: it is never inserted at     *)
(* some date and never keeps the monthly points out of the table.          *)
(***************************************************************************)
C9_NonMonthlyCodesAreSkipped ==
    (/\ BuildEnded /\ ~FetchFailed
     /\ AllCataloged /\ AllNumeric /\ NoEmptySeries
     /\ Len(Batch) > 0
     /\ \E k \in 1..Len(Batch[1].data) : IsMonthlyCode(Batch[1].data[k].period))
    => /\ bls_df # None
       /\ \A k \in 1..Len(bls_df.index) :
             \E o \in Observations :
                IsMonthlyCode(Obs(o).period) /\ bls_df.index[k] = FirstOfMonth(Obs(o))
       /\ \A k \in 1..Len(Batch[1].data) :
             IsMonthlyCode(Batch[1].data[k].period) =>
                \E r \in 1..Len(bls_df.index) :
                   /\ bls_df.index[r] = FirstOfMonth(Batch[1].data[k])
                   /\ bls_df.columns[1].values[r] = <<DecVal(Batch[1].data[k].value)>>

(***************************************************************************)
(* C10.  For every series of a well-formed batch the display name is the   *)
(* catalog's title, or the raw identifier when there is no title (no title *)
(* field, or no catalog metadata at all); a missing title never keeps the  *)
(* series' column, keyed by its identifier, out of the table.              *)
(***************************************************************************)
C10_NameFallsBackToIdentifier ==
    (/\ BuildEnded /\ ~FetchFailed
     /\ AllMonthly /\ AllNumeric /\ NoEmptySeries
     /\ Len(Batch) > 0)
    => /\ bls_df # None
       /\ \A s \in 1..Len(Batch) :
             \E c \in 1..Len(bls_df.columns) :
                bls_df.columns[c].name \in
                    {Batch[s].seriesID,
                     IF Batch[s].seriesID \in DOMAIN RenameMap
                     THEN RenameMap[Batch[s].seriesID] ELSE Batch[s].seriesID}
       /\ LET last == Batch[Len(Batch)]
          IN  series_name =
                 IF "catalog" \in DOMAIN last /\ "series_title" \in DOMAIN last.catalog
                 THEN last.catalog.series_title
                 ELSE last.seriesID

====
